---- MODULE Spec2Model ----
(***************************************************************************)
(* Weighted variance swaps: pricing and P&L attribution                    *)
(* (volatility_arbitrage/pricing_model/weighted_variance_swap.py).         *)
(*                                                                         *)
(* A float64 is modelled as an exact rational <<n, d>> in lowest terms     *)
(* with d > 0; the non-finite floats are <<0, 0>> (NaN), <<1, 0>> (+inf)   *)
(* and <<-1, 0>> (-inf).  +, -, * and / are exact on finite values and     *)
(* follow IEEE-754 on the non-finite ones.  np.exp and np.log are          *)
(* tabulated to four decimals on the grid the inputs reach; np.sqrt is     *)
(* exact on squares of rationals.  An ARRAY is a sequence of such values.  *)
(***************************************************************************)
EXTENDS Integers, Sequences, FiniteSets

----------------------------------------------------------------------------
(* float64 arithmetic *)

Abs(i) == IF i < 0 THEN -i ELSE i

Sign(i) == IF i < 0 THEN -1 ELSE IF i > 0 THEN 1 ELSE 0

RECURSIVE GCD(_, _)
GCD(a, b) == IF b = 0 THEN a ELSE GCD(b, a % b)

\* n / d as a float: lowest terms, positive denominator; d = 0 gives nan or +-inf
Norm(n, d) ==
    IF d = 0 THEN <<Sign(n), 0>>
    ELSE LET g == GCD(Abs(n), Abs(d))
         IN  <<Sign(d) * (n \div g), Abs(d) \div g>>

NaN == <<0, 0>>
Zero == <<0, 1>>
One == <<1, 1>>
Two == <<2, 1>>

IsFinite(x) == x[2] # 0
IsNaN(x) == x = NaN
IsPos(x) == x[1] > 0
IsNeg(x) == x[1] < 0
IsZero(x) == x = Zero

Neg(x) == <<-x[1], x[2]>>

Add(x, y) ==
    IF IsFinite(x) /\ IsFinite(y)
    THEN LET g == GCD(x[2], y[2])
         IN  Norm(x[1] * (y[2] \div g) + y[1] * (x[2] \div g), (x[2] \div g) * y[2])
    ELSE IF IsNaN(x) \/ IsNaN(y) THEN NaN
    ELSE IF IsFinite(x) THEN y
    ELSE IF IsFinite(y) THEN x
    ELSE IF x = y THEN x ELSE NaN

Sub(x, y) == Add(x, Neg(y))

Mul(x, y) == Norm(x[1] * y[1], x[2] * y[2])

Div(x, y) == Norm(x[1] * y[2], x[2] * y[1])

\* x < y on finite values
Less(x, y) == IsFinite(x) /\ IsFinite(y) /\ x[1] * y[2] < y[1] * x[2]

\* np.exp, rounded to four decimals, on the half-integer grid [-2, 2]
ExpTable ==
    [k \in -4..4 |->
        CASE k = -4 -> Norm(1353, 10000)
          [] k = -3 -> Norm(2231, 10000)
          [] k = -2 -> Norm(3679, 10000)
          [] k = -1 -> Norm(6065, 10000)
          [] k = 0  -> One
          [] k = 1  -> Norm(16487, 10000)
          [] k = 2  -> Norm(27183, 10000)
          [] k = 3  -> Norm(44817, 10000)
          [] k = 4  -> Norm(73891, 10000)]

Exp(x) ==
    IF IsNaN(x) THEN NaN
    ELSE IF x = <<1, 0>> THEN x
    ELSE IF x = <<-1, 0>> THEN Zero
    ELSE ExpTable[(2 * x[1]) \div x[2]]

\* np.log, rounded to four decimals, on the forward ratios of the scenario grid
Log(x) ==
    IF IsNaN(x) \/ IsNeg(x) THEN NaN
    ELSE IF x = Zero THEN <<-1, 0>>
    ELSE IF x = <<1, 0>> THEN x
    ELSE CASE x = <<1, 4>>   -> Norm(-13863, 10000)
           [] x = <<9, 20>>  -> Norm(-7985, 10000)
           [] x = <<1, 2>>   -> Norm(-6931, 10000)
           [] x = <<11, 20>> -> Norm(-5978, 10000)
           [] x = <<9, 10>>  -> Norm(-1054, 10000)
           [] x = <<1, 1>>   -> Zero
           [] x = <<11, 10>> -> Norm(953, 10000)
           [] x = <<2, 1>>   -> Norm(6931, 10000)

\* integer square root
ISqrt(i) == CHOOSE r \in 0..i : r * r <= i /\ i < (r + 1) * (r + 1)

\* np.sqrt: exact on squares of rationals, nan below zero
Sqrt(x) ==
    IF IsNaN(x) \/ IsNeg(x) THEN NaN
    ELSE IF ~IsFinite(x) THEN x
    ELSE Norm(ISqrt(x[1]), ISqrt(x[2]))

----------------------------------------------------------------------------
(* elementwise numpy arithmetic on arrays; a scalar broadcasts *)

ArrAdd(a, b) == [i \in 1..Len(a) |-> Add(a[i], b[i])]
ArrSub(a, b) == [i \in 1..Len(a) |-> Sub(a[i], b[i])]
ArrMul(a, b) == [i \in 1..Len(a) |-> Mul(a[i], b[i])]
ArrDiv(a, b) == [i \in 1..Len(a) |-> Div(a[i], b[i])]
ArrNeg(a) == [i \in 1..Len(a) |-> Neg(a[i])]
ArrExp(a) == [i \in 1..Len(a) |-> Exp(a[i])]
ArrLog(a) == [i \in 1..Len(a) |-> Log(a[i])]
ArrSqrt(a) == [i \in 1..Len(a) |-> Sqrt(a[i])]
ScalarMul(s, a) == [i \in 1..Len(a) |-> Mul(s, a[i])]
ScalarRSub(s, a) == [i \in 1..Len(a) |-> Sub(s, a[i])]
ArrSubScalar(a, s) == [i \in 1..Len(a) |-> Sub(a[i], s)]
ArrDivScalar(a, s) == [i \in 1..Len(a) |-> Div(a[i], s)]
zeros_like(a) == [i \in 1..Len(a) |-> Zero]

----------------------------------------------------------------------------
(* WeightedVarianceSwap and VarianceSwap: the query operations.  self is    *)
(* the instrument, [imp_var_params, real_var_params, corr].                 *)

\* var_vega without the division by kappa
var_vega_undivided(self, tau) ==
    ScalarRSub(One, ArrExp(ScalarMul(Neg(self.imp_var_params.kappa), tau)))

\* VarianceSwap.var_vega
var_vega(self, tau) ==
    ArrDivScalar(
        ScalarRSub(One, ArrExp(ScalarMul(Neg(self.imp_var_params.kappa), tau))),
        self.imp_var_params.kappa)

\* VarianceSwap.price
price(self, imp_var, tau) ==
    ArrAdd(
        ScalarMul(self.imp_var_params.mean_of_var, tau),
        ArrDivScalar(
            ArrMul(
                ArrSubScalar(imp_var, self.imp_var_params.mean_of_var),
                ScalarRSub(One, ArrExp(ScalarMul(Neg(self.imp_var_params.kappa), tau)))),
            self.imp_var_params.kappa))

\* a vanna term that is not identically zero
vanna_pnl_cross(self, imp_var_0, tau_0, imp_var_t, tau_t, f_0, f_t) ==
    ArrMul(ArrSub(imp_var_t, imp_var_0), ArrSub(f_t, f_0))

\* VarianceSwap.vanna_pnl
vanna_pnl(self, imp_var_0, tau_0, imp_var_t, tau_t, f_0, f_t) ==
    zeros_like(imp_var_0)

\* gamma_pnl without the -1
gamma_pnl_no_one(f_0, f_t) ==
    ScalarMul(Two, ArrSub(ArrDiv(f_t, f_0), ArrLog(ArrDiv(f_t, f_0))))

\* VarianceSwap.gamma_pnl (static)
gamma_pnl(f_0, f_t) ==
    ScalarMul(Two,
        ArrSub(ArrSubScalar(ArrDiv(f_t, f_0), One), ArrLog(ArrDiv(f_t, f_0))))

forward_var_vega(self, tau_front, tau_back) ==
    ArrSub(var_vega(self, tau_back), var_vega(self, tau_front))

\* the ratio taken with the realized process's vol_of_var
var_skew_stikiness_ratio_real(self, real_var, imp_var) ==
    ArrDiv(
        ScalarMul(
            Mul(self.corr.rho_spot_imp, self.real_var_params.vol_of_var),
            ArrSqrt(imp_var)),
        ArrSqrt(real_var))

var_skew_stikiness_ratio(self, real_var, imp_var) ==
    ArrDiv(
        ScalarMul(
            Mul(self.corr.rho_spot_imp, self.imp_var_params.vol_of_var),
            ArrSqrt(imp_var)),
        ArrSqrt(real_var))

min_var_delta(self, real_var, imp_var, tau_0, tau_t) ==
    LET fvv == forward_var_vega(self, ArrSub(tau_0, tau_t), tau_0)
        ssr == var_skew_stikiness_ratio(self, real_var, imp_var)
    IN  ArrMul(fvv, ssr)

\* the hedge P&L with -min_var_delta * f_t - f_0
vega_hedge_pnl_unbracketed(self, f_0, f_t, real_var_0, imp_var_0, tau_0, tau_t) ==
    LET mvd == min_var_delta(self, real_var_0, imp_var_0, tau_0, tau_t)
    IN  ArrSub(ArrMul(ArrNeg(mvd), f_t), f_0)

vega_hedge_pnl(self, f_0, f_t, real_var_0, imp_var_0, tau_0, tau_t) ==
    LET mvd == min_var_delta(self, real_var_0, imp_var_0, tau_0, tau_t)
    IN  ArrMul(ArrNeg(mvd), ArrSub(f_t, f_0))

\* theta_pnl with the offset tau_0 - tau_t
theta_pnl_elapsed(self, imp_var_0, tau_0, tau_t) ==
    ArrNeg(price(self, imp_var_0, ArrSub(tau_0, tau_t)))

theta_pnl(self, imp_var_0, tau_0, tau_t) ==
    ArrNeg(price(self, imp_var_0, ArrSub(tau_t, tau_0)))

\* var_vega_pnl adding theta_pnl instead of taking it out
var_vega_pnl_plus_theta(self, imp_var_0, tau_0, imp_var_t, tau_t) ==
    LET price_0 == price(self, imp_var_0, tau_0)
        price_t == price(self, imp_var_t, tau_t)
        theta == theta_pnl(self, imp_var_0, tau_0, tau_t)
    IN  ArrAdd(ArrSub(price_t, price_0), theta)

var_vega_pnl(self, imp_var_0, tau_0, imp_var_t, tau_t) ==
    LET price_0 == price(self, imp_var_0, tau_0)
        price_t == price(self, imp_var_t, tau_t)
        theta == theta_pnl(self, imp_var_0, tau_0, tau_t)
    IN  ArrSub(ArrSub(price_t, price_0), theta)

\* total_pnl with price_0 - price_t
total_pnl_swapped(self, f_0, f_t, real_var_0, imp_var_0, tau_0, imp_var_t, tau_t) ==
    LET price_0 == price(self, imp_var_0, tau_0)
        price_t == price(self, imp_var_t, tau_t)
        vanna == vanna_pnl(self, imp_var_0, tau_0, imp_var_t, tau_t, f_0, f_t)
        gamma == gamma_pnl(f_0, f_t)
        vega_hedge == vega_hedge_pnl(self, f_0, f_t, real_var_0, imp_var_0, tau_0, tau_t)
    IN  ArrAdd(ArrAdd(ArrAdd(ArrSub(price_0, price_t), vanna), gamma), vega_hedge)

total_pnl(self, f_0, f_t, real_var_0, imp_var_0, tau_0, imp_var_t, tau_t) ==
    LET price_0 == price(self, imp_var_0, tau_0)
        price_t == price(self, imp_var_t, tau_t)
        vanna == vanna_pnl(self, imp_var_0, tau_0, imp_var_t, tau_t, f_0, f_t)
        gamma == gamma_pnl(f_0, f_t)
        vega_hedge == vega_hedge_pnl(self, f_0, f_t, real_var_0, imp_var_0, tau_0, tau_t)
    IN  ArrAdd(ArrAdd(ArrAdd(ArrSub(price_t, price_0), vanna), gamma), vega_hedge)

----------------------------------------------------------------------------
(* The invocations of price and var_vega an operation makes, in call order: *)
(* [fn, tau, stack], stack being the enclosing operations, outermost first. *)

Within(name, log) == [i \in 1..Len(log) |-> [log[i] EXCEPT !.stack = <<name>> \o @]]

price_trace(imp_var, tau) == <<[fn |-> "price", tau |-> tau, stack |-> <<>>]>>

var_vega_trace(tau) == <<[fn |-> "var_vega", tau |-> tau, stack |-> <<>>]>>

forward_var_vega_trace(tau_front, tau_back) ==
    Within("forward_var_vega", var_vega_trace(tau_back) \o var_vega_trace(tau_front))

min_var_delta_trace(real_var, imp_var, tau_0, tau_t) ==
    Within("min_var_delta", forward_var_vega_trace(ArrSub(tau_0, tau_t), tau_0))

vega_hedge_pnl_trace(f_0, f_t, real_var_0, imp_var_0, tau_0, tau_t) ==
    Within("vega_hedge_pnl", min_var_delta_trace(real_var_0, imp_var_0, tau_0, tau_t))

theta_pnl_trace(imp_var_0, tau_0, tau_t) ==
    Within("theta_pnl", price_trace(imp_var_0, ArrSub(tau_t, tau_0)))

var_vega_pnl_trace(imp_var_0, tau_0, imp_var_t, tau_t) ==
    Within("var_vega_pnl",
        price_trace(imp_var_0, tau_0)
        \o price_trace(imp_var_t, tau_t)
        \o theta_pnl_trace(imp_var_0, tau_0, tau_t))

total_pnl_trace(f_0, f_t, real_var_0, imp_var_0, tau_0, imp_var_t, tau_t) ==
    Within("total_pnl",
        price_trace(imp_var_0, tau_0)
        \o price_trace(imp_var_t, tau_t)
        \o vega_hedge_pnl_trace(f_0, f_t, real_var_0, imp_var_0, tau_0, tau_t))

\* the value operation o returns on instrument self for the keyword arguments a
Result(self, o, a) ==
    CASE o = "price" -> price(self, a.imp_var, a.tau)
      [] o = "var_vega" -> var_vega(self, a.tau)
      [] o = "forward_var_vega" -> forward_var_vega(self, a.tau_front, a.tau_back)
      [] o = "var_skew_stikiness_ratio" ->
            var_skew_stikiness_ratio(self, a.real_var, a.imp_var)
      [] o = "min_var_delta" -> min_var_delta(self, a.real_var, a.imp_var, a.tau_0, a.tau_t)
      [] o = "theta_pnl" -> theta_pnl(self, a.imp_var_0, a.tau_0, a.tau_t)
      [] o = "var_vega_pnl" -> var_vega_pnl(self, a.imp_var_0, a.tau_0, a.imp_var_t, a.tau_t)
      [] o = "vega_hedge_pnl" ->
            vega_hedge_pnl(self, a.f_0, a.f_t, a.real_var_0, a.imp_var_0, a.tau_0, a.tau_t)
      [] o = "vanna_pnl" ->
            vanna_pnl(self, a.imp_var_0, a.tau_0, a.imp_var_t, a.tau_t, a.f_0, a.f_t)
      [] o = "gamma_pnl" -> gamma_pnl(a.f_0, a.f_t)
      [] o = "total_pnl" ->
            total_pnl(self, a.f_0, a.f_t, a.real_var_0, a.imp_var_0, a.tau_0,
                      a.imp_var_t, a.tau_t)

Trace(o, a) ==
    CASE o = "price" -> price_trace(a.imp_var, a.tau)
      [] o = "var_vega" -> var_vega_trace(a.tau)
      [] o = "forward_var_vega" -> forward_var_vega_trace(a.tau_front, a.tau_back)
      [] o = "var_skew_stikiness_ratio" -> <<>>
      [] o = "min_var_delta" -> min_var_delta_trace(a.real_var, a.imp_var, a.tau_0, a.tau_t)
      [] o = "theta_pnl" -> theta_pnl_trace(a.imp_var_0, a.tau_0, a.tau_t)
      [] o = "var_vega_pnl" -> var_vega_pnl_trace(a.imp_var_0, a.tau_0, a.imp_var_t, a.tau_t)
      [] o = "vega_hedge_pnl" ->
            vega_hedge_pnl_trace(a.f_0, a.f_t, a.real_var_0, a.imp_var_0, a.tau_0, a.tau_t)
      [] o = "vanna_pnl" -> <<>>
      [] o = "gamma_pnl" -> <<>>
      [] o = "total_pnl" ->
            total_pnl_trace(a.f_0, a.f_t, a.real_var_0, a.imp_var_0, a.tau_0,
                            a.imp_var_t, a.tau_t)

----------------------------------------------------------------------------
(* Inputs *)

MaxLen == 2

KappaGrid == {Norm(-1, 1), Zero, One, Two}

ImpParamsGrid ==
    [kappa : KappaGrid, mean_of_var : {Norm(4, 100)}, vol_of_var : {Norm(1, 2)}]

RealParamsGrid ==
    { [kappa |-> Two, mean_of_var |-> Norm(4, 100), vol_of_var |-> Norm(1, 2)],
      [kappa |-> One, mean_of_var |-> Norm(9, 100), vol_of_var |-> One] }

CorrGrid == [rho_spot_imp : {Norm(-1, 2)}]

F0Grid == {One, Two}
FtGrid == {Norm(1, 2), Norm(9, 10), One, Norm(11, 10), Two}
VarGrid == {Norm(4, 100), Norm(9, 100)}
TauGrid == {Zero, Norm(1, 2), One}

\* one scenario: the market observation at one index of the arrays
Still ==
    [f_0 |-> One, f_t |-> One, real_var_0 |-> Norm(4, 100), imp_var_0 |-> Norm(9, 100),
     tau_0 |-> One, imp_var_t |-> Norm(9, 100), tau_t |-> One]

Moved ==
    [f_0 |-> Two, f_t |-> Norm(11, 10), real_var_0 |-> Norm(9, 100),
     imp_var_0 |-> Norm(4, 100), tau_0 |-> One, imp_var_t |-> Norm(9, 100),
     tau_t |-> Norm(1, 2)]

Tails == {Still, Moved}

\* arrays of length n: any scenario of heads at index 1, one of Tails after it
Batches(heads) ==
    { [i \in 1..n |-> IF i = 1 THEN h ELSE t] : n \in 0..MaxLen, h \in heads, t \in Tails }

Col(b, field) == [i \in 1..Len(b) |-> b[i][field]]

----------------------------------------------------------------------------
(* State *)

VARIABLES
    imp_var_params,   \* self.imp_var_params
    real_var_params,  \* self.real_var_params
    corr,             \* self.corr
    given,            \* the arguments the constructor was called with
    pc,               \* "new": not constructed; "ready"; "returned": a query has returned
    op,               \* the query that returned
    args,             \* its keyword arguments
    ret,              \* the array it returned
    calls             \* the invocations of price and var_vega it made

vars == <<imp_var_params, real_var_params, corr, given, pc, op, args, ret, calls>>

Unset == [kappa |-> NaN, mean_of_var |-> NaN, vol_of_var |-> NaN]

Self == [imp_var_params |-> imp_var_params, real_var_params |-> real_var_params, corr |-> corr]

Init ==
    /\ imp_var_params = Unset
    /\ real_var_params = Unset
    /\ corr = [rho_spot_imp |-> NaN]
    /\ given = [imp_var_params |-> Unset, real_var_params |-> Unset,
                corr |-> [rho_spot_imp |-> NaN]]
    /\ pc = "new"
    /\ op = "none"
    /\ args = <<>>
    /\ ret = <<>>
    /\ calls = <<>>

\* WeightedVarianceSwap.__init__
VarianceSwap_init ==
    /\ pc = "new"
    /\ \E p \in ImpParamsGrid, q \in RealParamsGrid, c \in CorrGrid :
        /\ imp_var_params' = p
        /\ real_var_params' = q
        /\ corr' = c
        /\ given' = [imp_var_params |-> p, real_var_params |-> q, corr |-> c]
    /\ pc' = "ready"
    /\ UNCHANGED <<op, args, ret, calls>>

\* a query that overwrites self.corr while it evaluates
Returns_assigning(o, a) ==
    /\ pc = "ready"
    /\ pc' = "returned"
    /\ op' = o
    /\ args' = a
    /\ ret' = Result(Self, o, a)
    /\ calls' = Trace(o, a)
    /\ corr' = [rho_spot_imp |-> Zero]
    /\ UNCHANGED <<imp_var_params, real_var_params, given>>

\* a query evaluates its body on self and returns; it assigns no attribute
Returns(o, a) ==
    /\ pc = "ready"
    /\ pc' = "returned"
    /\ op' = o
    /\ args' = a
    /\ ret' = Result(Self, o, a)
    /\ calls' = Trace(o, a)
    /\ UNCHANGED <<imp_var_params, real_var_params, corr, given>>

PriceHeads == { [Still EXCEPT !.imp_var_0 = v, !.tau_0 = t] : v \in VarGrid, t \in TauGrid }

call_price ==
    \E b \in Batches(PriceHeads) :
        Returns("price", [imp_var |-> Col(b, "imp_var_0"), tau |-> Col(b, "tau_0")])

call_var_vega ==
    \E b \in Batches(PriceHeads) :
        Returns("var_vega", [tau |-> Col(b, "tau_0")])

TauHeads == { [Still EXCEPT !.tau_0 = t, !.tau_t = u] : t \in TauGrid, u \in TauGrid }

call_forward_var_vega ==
    \E b \in Batches(TauHeads) :
        Returns("forward_var_vega",
                [tau_front |-> Col(b, "tau_t"), tau_back |-> Col(b, "tau_0")])

VarHeads ==
    { [Still EXCEPT !.real_var_0 = r, !.imp_var_0 = v] : r \in VarGrid, v \in VarGrid }

call_var_skew_stikiness_ratio ==
    \E b \in Batches(VarHeads) :
        Returns("var_skew_stikiness_ratio",
                [real_var |-> Col(b, "real_var_0"), imp_var |-> Col(b, "imp_var_0")])

DeltaHeads ==
    { [Still EXCEPT !.real_var_0 = r, !.imp_var_0 = v, !.tau_0 = t, !.tau_t = u] :
        r \in VarGrid, v \in VarGrid, t \in TauGrid, u \in TauGrid }

call_min_var_delta ==
    \E b \in Batches(DeltaHeads) :
        Returns("min_var_delta",
                [real_var |-> Col(b, "real_var_0"), imp_var |-> Col(b, "imp_var_0"),
                 tau_0 |-> Col(b, "tau_0"), tau_t |-> Col(b, "tau_t")])

ThetaHeads ==
    { [Still EXCEPT !.imp_var_0 = v, !.tau_0 = t, !.tau_t = u] :
        v \in VarGrid, t \in TauGrid, u \in TauGrid }

call_theta_pnl ==
    \E b \in Batches(ThetaHeads) :
        Returns("theta_pnl",
                [imp_var_0 |-> Col(b, "imp_var_0"), tau_0 |-> Col(b, "tau_0"),
                 tau_t |-> Col(b, "tau_t")])

VegaHeads ==
    { [Still EXCEPT !.imp_var_0 = v, !.tau_0 = t, !.imp_var_t = w, !.tau_t = u] :
        v \in VarGrid, t \in TauGrid, w \in VarGrid, u \in TauGrid }

call_var_vega_pnl ==
    \E b \in Batches(VegaHeads) :
        Returns("var_vega_pnl",
                [imp_var_0 |-> Col(b, "imp_var_0"), tau_0 |-> Col(b, "tau_0"),
                 imp_var_t |-> Col(b, "imp_var_t"), tau_t |-> Col(b, "tau_t")])

HedgeHeads ==
    { [Still EXCEPT !.f_0 = f, !.f_t = g, !.real_var_0 = r, !.imp_var_0 = v,
                    !.tau_0 = t, !.tau_t = u] :
        f \in F0Grid, g \in FtGrid, r \in VarGrid, v \in VarGrid,
        t \in TauGrid, u \in TauGrid }

call_vega_hedge_pnl ==
    \E b \in Batches(HedgeHeads) :
        Returns("vega_hedge_pnl",
                [f_0 |-> Col(b, "f_0"), f_t |-> Col(b, "f_t"),
                 real_var_0 |-> Col(b, "real_var_0"), imp_var_0 |-> Col(b, "imp_var_0"),
                 tau_0 |-> Col(b, "tau_0"), tau_t |-> Col(b, "tau_t")])

VannaHeads ==
    { [Still EXCEPT !.f_0 = f, !.f_t = g, !.imp_var_0 = v, !.tau_0 = t,
                    !.imp_var_t = w, !.tau_t = u] :
        f \in F0Grid, g \in FtGrid, v \in VarGrid, t \in TauGrid,
        w \in VarGrid, u \in TauGrid }

call_vanna_pnl ==
    \E b \in Batches(VannaHeads) :
        Returns("vanna_pnl",
                [imp_var_0 |-> Col(b, "imp_var_0"), tau_0 |-> Col(b, "tau_0"),
                 imp_var_t |-> Col(b, "imp_var_t"), tau_t |-> Col(b, "tau_t"),
                 f_0 |-> Col(b, "f_0"), f_t |-> Col(b, "f_t")])

GammaHeads == { [Still EXCEPT !.f_0 = f, !.f_t = g] : f \in F0Grid, g \in FtGrid }

call_gamma_pnl ==
    \E b \in Batches(GammaHeads) :
        Returns("gamma_pnl", [f_0 |-> Col(b, "f_0"), f_t |-> Col(b, "f_t")])

TotalHeads ==
    [f_0 : F0Grid, f_t : FtGrid, real_var_0 : VarGrid, imp_var_0 : VarGrid,
     tau_0 : TauGrid, imp_var_t : VarGrid, tau_t : TauGrid]

call_total_pnl ==
    \E b \in Batches(TotalHeads) :
        Returns("total_pnl",
                [f_0 |-> Col(b, "f_0"), f_t |-> Col(b, "f_t"),
                 real_var_0 |-> Col(b, "real_var_0"), imp_var_0 |-> Col(b, "imp_var_0"),
                 tau_0 |-> Col(b, "tau_0"), imp_var_t |-> Col(b, "imp_var_t"),
                 tau_t |-> Col(b, "tau_t")])

\* the caller takes the returned array; the instrument is ready for the next query
Return ==
    /\ pc = "returned"
    /\ pc' = "ready"
    /\ op' = "none"
    /\ args' = <<>>
    /\ ret' = <<>>
    /\ calls' = <<>>
    /\ UNCHANGED <<imp_var_params, real_var_params, corr, given>>

Next ==
    \/ VarianceSwap_init
    \/ call_price
    \/ call_var_vega
    \/ call_forward_var_vega
    \/ call_var_skew_stikiness_ratio
    \/ call_min_var_delta
    \/ call_theta_pnl
    \/ call_var_vega_pnl
    \/ call_vega_hedge_pnl
    \/ call_vanna_pnl
    \/ call_gamma_pnl
    \/ call_total_pnl
    \/ Return

Spec == Init /\ [][Next]_vars

----------------------------------------------------------------------------
(* Properties *)

Returned(o) == pc = "returned" /\ op = o

Idx == 1..Len(ret)

InStack(e, name) == \E k \in 1..Len(e.stack) : e.stack[k] = name

Entries == { calls[k] : k \in 1..Len(calls) }

\* C1: total_pnl returns price(imp_var_t, tau_t) - price(imp_var_0, tau_0) + vanna_pnl
\* + gamma_pnl + vega_hedge_pnl, each term being what the public operation returns
\* for the same arguments.
C1_TotalPnlDecomposition ==
    Returned("total_pnl") =>
        ret = ArrAdd(
                ArrAdd(
                    ArrAdd(
                        ArrSub(price(Self, args.imp_var_t, args.tau_t),
                               price(Self, args.imp_var_0, args.tau_0)),
                        vanna_pnl(Self, args.imp_var_0, args.tau_0, args.imp_var_t,
                                  args.tau_t, args.f_0, args.f_t)),
                    gamma_pnl(args.f_0, args.f_t)),
                vega_hedge_pnl(Self, args.f_0, args.f_t, args.real_var_0,
                               args.imp_var_0, args.tau_0, args.tau_t))

C1_Witness ==
    /\ Returned("total_pnl")
    /\ \E i \in Idx :
        /\ IsFinite(ret[i])
        /\ price(Self, args.imp_var_t, args.tau_t)[i] # price(Self, args.imp_var_0, args.tau_0)[i]
        /\ IsPos(gamma_pnl(args.f_0, args.f_t)[i])
        /\ ~IsZero(vega_hedge_pnl(Self, args.f_0, args.f_t, args.real_var_0,
                                  args.imp_var_0, args.tau_0, args.tau_t)[i])

\* C2: on a VarianceSwap with kappa > 0 and positive f_0, real_var_0, imp_var_0, a step
\* with f_0 = f_t, imp_var_0 = imp_var_t and tau_0 = tau_t has gamma_pnl = 0,
\* vega_hedge_pnl = 0 and total_pnl = 0 (at every index where nothing changed).
C2_ZeroChange ==
    (pc = "returned" /\ IsPos(imp_var_params.kappa)) =>
        \A i \in Idx :
            /\ (op = "gamma_pnl" /\ IsPos(args.f_0[i]) /\ args.f_0[i] = args.f_t[i])
                    => ret[i] = Zero
            /\ (/\ op = "vega_hedge_pnl"
                /\ IsPos(args.f_0[i]) /\ IsPos(args.real_var_0[i]) /\ IsPos(args.imp_var_0[i])
                /\ args.f_0[i] = args.f_t[i]
                /\ args.tau_0[i] = args.tau_t[i])
                    => ret[i] = Zero
            /\ (/\ op = "total_pnl"
                /\ IsPos(args.f_0[i]) /\ IsPos(args.real_var_0[i]) /\ IsPos(args.imp_var_0[i])
                /\ args.f_0[i] = args.f_t[i]
                /\ args.imp_var_0[i] = args.imp_var_t[i]
                /\ args.tau_0[i] = args.tau_t[i])
                    => ret[i] = Zero

\* a zero-change total_pnl whose hedge ratio min_var_delta is not 0
C2_Witness ==
    /\ Returned("total_pnl")
    /\ IsPos(imp_var_params.kappa)
    /\ \E i \in Idx :
        /\ args.f_0[i] = args.f_t[i]
        /\ args.imp_var_0[i] = args.imp_var_t[i]
        /\ args.tau_0[i] = args.tau_t[i]
        /\ ret[i] = Zero
        /\ LET mvd == min_var_delta(Self, args.real_var_0, args.imp_var_0,
                                    args.tau_0, args.tau_t)[i]
           IN  IsFinite(mvd) /\ ~IsZero(mvd)

\* C3: VarianceSwap.gamma_pnl is 0 when f_t = f_0, strictly positive for positive
\* forwards with f_t # f_0, and the same for every pair of forwards with the same
\* ratio f_t / f_0.
C3_GammaConvex ==
    Returned("gamma_pnl") =>
        \A i \in Idx :
            /\ args.f_t[i] = args.f_0[i] => ret[i] = Zero
            /\ (args.f_t[i] # args.f_0[i] /\ IsPos(args.f_0[i]) /\ IsPos(args.f_t[i]))
                    => (IsFinite(ret[i]) /\ IsPos(ret[i]))
            /\ \A g0 \in F0Grid, gt \in FtGrid :
                    Div(gt, g0) = Div(args.f_t[i], args.f_0[i])
                        => gamma_pnl(<<g0>>, <<gt>>)[1] = ret[i]

C3_Witness ==
    /\ Returned("gamma_pnl")
    /\ \E i \in Idx :
        /\ args.f_t[i] # args.f_0[i]
        /\ IsPos(ret[i])
        /\ \E g0 \in F0Grid, gt \in FtGrid :
            /\ g0 # args.f_0[i]
            /\ Div(gt, g0) = Div(args.f_t[i], args.f_0[i])

\* C4: VarianceSwap.vanna_pnl returns an array of zeros as long as its input,
\* whatever the arguments hold.
C4_VannaZero ==
    Returned("vanna_pnl") =>
        /\ Len(ret) = Len(args.imp_var_0)
        /\ \A i \in Idx : ret[i] = Zero

C4_Witness ==
    /\ Returned("vanna_pnl")
    /\ Len(ret) >= 2
    /\ args.f_0[1] # args.f_t[1]
    /\ args.imp_var_0[1] # args.imp_var_t[1]
    /\ args.tau_0[1] # args.tau_t[1]

\* C5: theta_pnl + var_vega_pnl = price(imp_var_t, tau_t) - price(imp_var_0, tau_0), and
\* theta_pnl + var_vega_pnl + vanna_pnl + gamma_pnl + vega_hedge_pnl = total_pnl.
C5_ComponentsSum ==
    /\ Returned("var_vega_pnl") =>
        ArrAdd(theta_pnl(Self, args.imp_var_0, args.tau_0, args.tau_t), ret)
            = ArrSub(price(Self, args.imp_var_t, args.tau_t),
                     price(Self, args.imp_var_0, args.tau_0))
    /\ Returned("total_pnl") =>
        ret = ArrAdd(
                ArrAdd(
                    ArrAdd(
                        ArrAdd(theta_pnl(Self, args.imp_var_0, args.tau_0, args.tau_t),
                               var_vega_pnl(Self, args.imp_var_0, args.tau_0,
                                            args.imp_var_t, args.tau_t)),
                        vanna_pnl(Self, args.imp_var_0, args.tau_0, args.imp_var_t,
                                  args.tau_t, args.f_0, args.f_t)),
                    gamma_pnl(args.f_0, args.f_t)),
                vega_hedge_pnl(Self, args.f_0, args.f_t, args.real_var_0,
                               args.imp_var_0, args.tau_0, args.tau_t))

C5_Witness ==
    /\ Returned("var_vega_pnl")
    /\ \E i \in Idx :
        /\ IsFinite(ret[i]) /\ ~IsZero(ret[i])
        /\ ~IsZero(theta_pnl(Self, args.imp_var_0, args.tau_0, args.tau_t)[i])
        /\ args.tau_t[i] # args.tau_0[i]

\* C6: VarianceSwap.price is affine in imp_var with slope var_vega(tau):
\* price(imp_var + d, tau) - price(imp_var, tau) = d * var_vega(tau).
C6_PriceAffine ==
    Returned("price") =>
        \A i \in Idx : \A v \in VarGrid :
            Sub(price(Self, <<v>>, <<args.tau[i]>>)[1], ret[i])
                = Mul(Sub(v, args.imp_var[i]), var_vega(Self, <<args.tau[i]>>)[1])

C6_Witness ==
    /\ Returned("price")
    /\ \E i \in Idx :
        /\ IsFinite(ret[i])
        /\ LET vv == var_vega(Self, <<args.tau[i]>>)[1]
           IN  /\ ~IsZero(vv)
               /\ vv # One
               /\ \E v \in VarGrid :
                    /\ v # args.imp_var[i]
                    /\ price(Self, <<v>>, <<args.tau[i]>>)[1] # ret[i]

\* min_var_delta at index i, written out from the time-0 variances, the implied
\* process and the bucket [tau_0 - tau_t, tau_0]
C7_Delta(a, i) ==
    Mul(Sub(var_vega(Self, <<a.tau_0[i]>>)[1],
            var_vega(Self, <<Sub(a.tau_0[i], a.tau_t[i])>>)[1]),
        Div(Mul(Mul(corr.rho_spot_imp, imp_var_params.vol_of_var), Sqrt(a.imp_var_0[i])),
            Sqrt(a.real_var_0[i])))

\* C7: vega_hedge_pnl = -min_var_delta * (f_t - f_0) with min_var_delta =
\* (var_vega(tau_0) - var_vega(tau_0 - tau_t)) * rho_spot_imp * vol_of_var(implied)
\* * sqrt(imp_var_0) / sqrt(real_var_0); the realized-variance parameters do not enter.
C7_VegaHedge ==
    Returned("vega_hedge_pnl") =>
        /\ \A i \in Idx :
            ret[i] = Mul(Neg(C7_Delta(args, i)), Sub(args.f_t[i], args.f_0[i]))
        /\ \A q \in RealParamsGrid :
            ret = vega_hedge_pnl([Self EXCEPT !.real_var_params = q], args.f_0, args.f_t,
                                 args.real_var_0, args.imp_var_0, args.tau_0, args.tau_t)

C7_Witness ==
    /\ Returned("vega_hedge_pnl")
    /\ \E i \in Idx :
        /\ IsFinite(ret[i]) /\ ~IsZero(ret[i])
        /\ IsPos(args.tau_t[i])
        /\ args.tau_t[i] # args.tau_0[i]
        /\ args.imp_var_0[i] # args.real_var_0[i]
    /\ real_var_params.vol_of_var # imp_var_params.vol_of_var

\* C8: after any sequence of queries the three attributes are the ones given at
\* construction, and what a query returns is what it returns on those.
C8_NoMutation ==
    pc # "new" =>
        /\ imp_var_params = given.imp_var_params
        /\ real_var_params = given.real_var_params
        /\ corr = given.corr
        /\ pc = "returned" => ret = Result(given, op, args)

C8_Witness ==
    /\ Returned("total_pnl")
    /\ Len(ret) >= 1
    /\ IsFinite(ret[1]) /\ ~IsZero(ret[1])
    /\ Self = given

\* C9: an instrument with kappa <= 0 is rejected at construction, so none exists and
\* no query is evaluated on one.
C9_KappaRejected ==
    /\ pc # "new" => IsPos(imp_var_params.kappa)
    /\ pc = "returned" => IsPos(imp_var_params.kappa)

\* the operations that take tau_0 and tau_t
StepOps == {"min_var_delta", "theta_pnl", "var_vega_pnl", "vega_hedge_pnl", "vanna_pnl",
            "total_pnl"}

\* tau_0 >= tau_t >= 0 at index i
Ordered(a, i) == ~Less(a.tau_0[i], a.tau_t[i]) /\ ~IsNeg(a.tau_t[i])

\* what C10 says apart from the sign of the tau that reaches price inside theta_pnl
C10_Common ==
    /\ Returned("theta_pnl") =>
        ret = ArrNeg(price(Self, args.imp_var_0, ArrSub(args.tau_t, args.tau_0)))
    /\ (pc = "returned" /\ op \in StepOps) =>
        \A e \in Entries :
            /\ (e.fn = "price" /\ ~InStack(e, "theta_pnl"))
                    => (e.tau = args.tau_0 \/ e.tau = args.tau_t)
            /\ (e.fn = "price" /\ InStack(e, "theta_pnl"))
                    => e.tau = ArrSub(args.tau_t, args.tau_0)
            /\ (op = "total_pnl" /\ e.fn = "price") => ~InStack(e, "theta_pnl")
            /\ \A i \in 1..Len(e.tau) :
                Ordered(args, i) =>
                    /\ (op = "total_pnl" /\ e.fn = "price") => ~IsNeg(e.tau[i])
                    /\ (e.fn = "var_vega" /\ InStack(e, "min_var_delta"))
                            => ~IsNeg(e.tau[i])

\* C10 as stated: with tau_0 >= tau_t >= 0, price receives a tau <= 0 only inside
\* theta_pnl; stated here of the instruments with kappa > 0.
C10_Original ==
    /\ C10_Common
    /\ (pc = "returned" /\ op \in StepOps /\ IsPos(imp_var_params.kappa)) =>
        \A e \in Entries : \A i \in 1..Len(e.tau) :
            (Ordered(args, i) /\ e.fn = "price" /\ ~IsPos(e.tau[i]))
                => InStack(e, "theta_pnl")

\* C10 amended: with tau_0 >= tau_t >= 0, price receives a tau < 0 only inside
\* theta_pnl (a tau of 0 also reaches it from total_pnl and var_vega_pnl).
C10_ThetaOffset ==
    /\ C10_Common
    /\ (pc = "returned" /\ op \in StepOps) =>
        \A e \in Entries : \A i \in 1..Len(e.tau) :
            (Ordered(args, i) /\ e.fn = "price" /\ IsNeg(e.tau[i]))
                => InStack(e, "theta_pnl")

C10_Witness ==
    /\ Returned("var_vega_pnl")
    /\ \E e \in Entries : \E i \in 1..Len(e.tau) :
        /\ Ordered(args, i)
        /\ e.fn = "price"
        /\ IsNeg(e.tau[i])
        /\ InStack(e, "theta_pnl")
    /\ \E e \in Entries : \E i \in 1..Len(e.tau) :
        /\ Ordered(args, i)
        /\ e.fn = "price"
        /\ IsZero(e.tau[i])
        /\ ~InStack(e, "theta_pnl")

====
